---- MODULE Spec2Model ----
(***************************************************************************)
(* BloomWatch: the bloom-status classifier (utils/bloomStatus.ts), the     *)
(* event list with its status filter and search box                        *)
(* (components/EventsList.tsx), the event cards                            *)
(* (components/SuperbloomEvent.tsx), the page that holds the focused event *)
(* (app/page.tsx, Home) and the image viewer (components/Gallery.tsx,      *)
(* ImageView).                                                             *)
(*                                                                         *)
(* Time.  Date.getTime() counts milliseconds since the epoch; the model    *)
(* counts whole seconds since the epoch (getTime() / 1000) so that dates   *)
(* of the year 2024 fit the model checker's integers.  One day is          *)
(* 60 * 60 * 24 seconds, as (1000 * 60 * 60 * 24) ms in the source.        *)
(*                                                                         *)
(* Strings are sequences of one-character strings, so that toLowerCase     *)
(* and includes are computed character by character.                       *)
(*                                                                         *)
(* filteredEvents is recomputed at every render; the model takes it as a   *)
(* function of the state, evaluated at one reading of the clock.           *)
(***************************************************************************)
EXTENDS Integers, Sequences, FiniteSets, TLC

VARIABLES
    clock,          \* the wall clock that `new Date()` reads (seconds)
    superbloomData, \* the bundled data/superbloom-events.json
    mounted,        \* has the load effect of EventsList run
    events,         \* EventsList state: events
    filter,         \* EventsList state: filter
    searchTerm,     \* EventsList state: searchTerm
    isExpanded,     \* SuperbloomEvent state: ids of the cards with isExpanded
    selectedEvent,  \* Home state: selectedEvent
    resetDep,       \* ImageView: selectedEvent?.id at the last reset effect
    viewMode,               \* ImageView state
    currentImageIndex,      \* ImageView state
    currentSatelliteIndex,  \* ImageView state
    currentGraphIndex,      \* ImageView state
    isZoomed,               \* ImageView state
    zoomPosition,           \* ImageView state
    imageLoaded,            \* ImageView state
    listener,       \* ImageView: what the registered keydown listener closes over
    loading         \* browser: the load attempts of <Image> not yet notified

listVars == <<clock, superbloomData, mounted, events, filter, searchTerm>>

\* the state of ImageView
viewerVars ==
    <<viewMode, currentImageIndex, currentSatelliteIndex, currentGraphIndex,
      isZoomed, zoomPosition, imageLoaded>>

\* everything outside EventsList
pageVars ==
    <<isExpanded, selectedEvent, resetDep, viewerVars, listener, loading>>

vars == <<listVars, pageVars>>

----------------------------------------------------------------------------
(* Bounds *)

MaxEvents == 2      \* longest catalog
MaxTermLen == 2     \* longest search term typed
MaxIndex == 5       \* largest index handed to goToImage directly

----------------------------------------------------------------------------
(* Dates and the clock *)

MsPerDay == 60 * 60 * 24

\* Days from 1970-01-01 to the calendar date y-m-d (proleptic Gregorian).
DaysFromCivil(y, m, d) ==
    LET yy  == IF m <= 2 THEN y - 1 ELSE y
        era == yy \div 400
        yoe == yy - era * 400
        mp  == IF m > 2 THEN m - 3 ELSE m + 9
        doy == (153 * mp + 2) \div 5 + d - 1
        doe == yoe * 365 + yoe \div 4 - yoe \div 100 + doy
    IN  era * 146097 + doe - 719468

\* new Date("YYYY-MM-DD").getTime(): a date-only string is UTC midnight.
DateParse(str) == DaysFromCivil(str.y, str.m, str.d) * MsPerDay

Date(y, m, d) == [y |-> y, m |-> m, d |-> d]

\* The date strings that occur in the catalogs.
DateStrings ==
    { Date(2024, 2, 10), Date(2024, 2, 20), Date(2024, 3, 1),
      Date(2024, 3, 20), Date(2024, 4, 10), Date(2024, 4, 11) }

At(day, seconds) == DateParse(day) + seconds

\* The instants at which the application is observed: midnights, one second
\* after midnight and one second before midnight of days around the
\* intervals of the catalogs.
Instants ==
    { At(Date(2024, 2, 20), 0), At(Date(2024, 2, 20), 1),
      At(Date(2024, 3, 1), 0),
      At(Date(2024, 3, 10), 0),
      At(Date(2024, 3, 20), 0), At(Date(2024, 3, 20), 1),
      At(Date(2024, 4, 9), MsPerDay - 1) }

\* Math.ceil(a / b) for an integer a and b > 0
Ceil(a, b) == -((-a) \div b)

\* Math.floor(a / b)
Floor(a, b) == a \div b

----------------------------------------------------------------------------
(* utils/bloomStatus.ts *)

getBloomStatus_floor(peakTimeInterval) ==
    LET now   == clock
        start == DateParse(peakTimeInterval[1])
        end   == DateParse(peakTimeInterval[2])
    IN  IF now >= start /\ now <= end
        THEN [isActive |-> TRUE, status |-> "active"]
        ELSE IF now < start
        THEN [isActive |-> FALSE, status |-> "upcoming",
              daysUntil |-> Floor(start - now, MsPerDay)]
        ELSE [isActive |-> FALSE, status |-> "past",
              daysSince |-> Floor(now - end, MsPerDay)]

getBloomStatus_strict(peakTimeInterval) ==
    LET now   == clock
        start == DateParse(peakTimeInterval[1])
        end   == DateParse(peakTimeInterval[2])
    IN  IF now > start /\ now < end
        THEN [isActive |-> TRUE, status |-> "active"]
        ELSE IF now < start
        THEN [isActive |-> FALSE, status |-> "upcoming",
              daysUntil |-> Ceil(start - now, MsPerDay)]
        ELSE [isActive |-> FALSE, status |-> "past",
              daysSince |-> Ceil(now - end, MsPerDay)]

getBloomStatus_plusOne(peakTimeInterval) ==
    LET now   == clock
        start == DateParse(peakTimeInterval[1])
        end   == DateParse(peakTimeInterval[2])
    IN  IF now >= start /\ now <= end
        THEN [isActive |-> TRUE, status |-> "active"]
        ELSE IF now < start
        THEN [isActive |-> FALSE, status |-> "upcoming",
              daysUntil |-> Floor(start - now, MsPerDay) + 1]
        ELSE [isActive |-> FALSE, status |-> "past",
              daysSince |-> Floor(now - end, MsPerDay) + 1]

\* getBloomStatus reads the clock itself: `const now = new Date()`.
getBloomStatus(peakTimeInterval) ==
    LET now   == clock
        start == DateParse(peakTimeInterval[1])
        end   == DateParse(peakTimeInterval[2])
    IN  IF now >= start /\ now <= end
        THEN [isActive |-> TRUE, status |-> "active"]
        ELSE IF now < start
        THEN [isActive |-> FALSE, status |-> "upcoming",
              daysUntil |-> Ceil(start - now, MsPerDay)]
        ELSE [isActive |-> FALSE, status |-> "past",
              daysSince |-> Ceil(now - end, MsPerDay)]

----------------------------------------------------------------------------
(* Strings *)

Chars == { "a", "A", "n", "N" }

\* String.prototype.toLowerCase, one character
LowerChar(c) ==
    CASE c = "A" -> "a"
      [] c = "N" -> "n"
      [] OTHER   -> c

toLowerCase(s) == [i \in 1..Len(s) |-> LowerChar(s[i])]

\* String.prototype.includes
includes(s, t) ==
    \E i \in 0..(Len(s) - Len(t)) : SubSeq(s, i + 1, i + Len(t)) = t

RECURSIVE StringsUpTo(_)
StringsUpTo(n) ==
    IF n = 0 THEN { <<>> }
    ELSE LET shorter == StringsUpTo(n - 1)
         IN  shorter \cup { Append(s, c) : s \in shorter, c \in Chars }

\* what the search box can hold
Terms == StringsUpTo(MaxTermLen)

\* the values an edit of the search box can produce from its content s:
\* a character typed at the end, the last character deleted, the box cleared
Edits(s) ==
    { t \in Terms : Len(t) = Len(s) + 1 /\ SubSeq(t, 1, Len(s)) = s }
    \cup { SubSeq(s, 1, Len(s) - 1) : k \in 1..(IF Len(s) > 0 THEN 1 ELSE 0) }
    \cup { <<>> }

----------------------------------------------------------------------------
(* The catalog: data/superbloom-events.json *)

\* the image collections of the record id: photos, satellite images by
\* year, and graphs (`graphImages` is optional; absent reads as empty)
\* the photo whose reference in the catalog is the empty string: <<id, i>>
MissingPhoto == <<4, 1>>

Photos(id, n) ==
    [i \in 1..n |-> IF <<id, i>> = MissingPhoto THEN <<>> ELSE <<id, "photo", i>>]

SatelliteImages(id, n) ==
    [i \in 1..n |-> [year |-> 2018 + i, image |-> <<id, "satellite", i>>]]

GraphImages(id, n) ==
    [i \in 1..n |-> [title |-> <<"a">>, image |-> <<id, "graph", i>>]]

\* numbers of satellite images, photos and graphs of the records 0..4
ImageCounts ==
    << <<2, 3, 0>>, <<0, 1, 2>>, <<1, 0, 1>>, <<3, 2, 0>>, <<2, 2, 2>> >>

Event(id, title, location, tags, from, to, isActive) ==
    [id |-> id, title |-> title, location |-> location, tags |-> tags,
     peakTimeInterval |-> <<from, to>>, isActive |-> isActive,
     satelliteImages |-> SatelliteImages(id, ImageCounts[id + 1][1]),
     images |-> Photos(id, ImageCounts[id + 1][2]),
     graphImages |-> GraphImages(id, ImageCounts[id + 1][3])]

EventPool ==
    { Event(0, <<"A", "n", "a">>, <<"n", "N">>, << <<"a", "a">> >>,
            Date(2024, 3, 1), Date(2024, 3, 20), TRUE),
      Event(1, <<"N", "a", "n">>, <<"A">>, << >>,
            Date(2024, 4, 10), Date(2024, 4, 10), FALSE),
      Event(2, <<"n", "n">>, <<"a", "N">>, << <<"N">>, <<"A", "A">> >>,
            Date(2024, 4, 11), Date(2024, 4, 11), TRUE),
      Event(3, <<"a">>, <<"a", "a">>, << <<"n", "a">> >>,
            Date(2024, 2, 10), Date(2024, 2, 20), FALSE),
      \* a record that breaks the data invariant start <= end
      Event(4, <<"A", "N">>, <<"N", "N">>, << <<"a">> >>,
            Date(2024, 3, 20), Date(2024, 3, 1), FALSE) }

Range(s) == { s[i] : i \in 1..Len(s) }

RECURSIVE CatalogsUpTo(_)
CatalogsUpTo(n) ==
    IF n = 0 THEN { <<>> }
    ELSE LET shorter == CatalogsUpTo(n - 1)
         IN  shorter \cup
             { Append(s, e) : s \in shorter, e \in EventPool }

\* ordered catalogs of records with unique identifiers
Catalogs ==
    { s \in CatalogsUpTo(MaxEvents) :
        \A i, j \in 1..Len(s) : s[i].id = s[j].id => i = j }

----------------------------------------------------------------------------
(* components/EventsList.tsx *)

Filters == { "all", "active", "soon", "inactive" }

SoonDays == 50

\* JavaScript truthiness of a number
Truthy(n) == n # 0

matchesFilter_lt(event, f) ==
    LET bloomStatus == getBloomStatus(event.peakTimeInterval)
    IN  \/ f = "all"
        \/ (f = "active" /\ bloomStatus.status = "active")
        \/ (f = "soon" /\ bloomStatus.status = "upcoming"
              /\ Truthy(bloomStatus.daysUntil)
              /\ bloomStatus.daysUntil < SoonDays)
        \/ (f = "inactive"
              /\ (\/ bloomStatus.status = "past"
                  \/ (bloomStatus.status = "upcoming"
                        /\ Truthy(bloomStatus.daysUntil)
                        /\ bloomStatus.daysUntil > SoonDays)))

matchesFilter_noPast(event, f) ==
    LET bloomStatus == getBloomStatus(event.peakTimeInterval)
    IN  \/ f = "all"
        \/ (f = "active" /\ bloomStatus.status = "active")
        \/ (f = "soon" /\ bloomStatus.status = "upcoming"
              /\ Truthy(bloomStatus.daysUntil)
              /\ bloomStatus.daysUntil <= SoonDays)
        \/ (f = "inactive"
              /\ bloomStatus.status = "upcoming"
              /\ Truthy(bloomStatus.daysUntil)
              /\ bloomStatus.daysUntil > SoonDays)

matchesFilter(event, f) ==
    LET bloomStatus == getBloomStatus(event.peakTimeInterval)
    IN  \/ f = "all"
        \/ (f = "active" /\ bloomStatus.status = "active")
        \/ (f = "soon" /\ bloomStatus.status = "upcoming"
              /\ Truthy(bloomStatus.daysUntil)
              /\ bloomStatus.daysUntil <= SoonDays)
        \/ (f = "inactive"
              /\ (\/ bloomStatus.status = "past"
                  \/ (bloomStatus.status = "upcoming"
                        /\ Truthy(bloomStatus.daysUntil)
                        /\ bloomStatus.daysUntil > SoonDays)))

matchesSearch_caseSensitiveTerm(event, term) ==
    \/ term = <<>>
    \/ includes(toLowerCase(event.title), term)
    \/ includes(toLowerCase(event.location), term)
    \/ \E k \in 1..Len(event.tags) :
           includes(toLowerCase(event.tags[k]), term)

matchesSearch(event, term) ==
    \/ term = <<>>
    \/ includes(toLowerCase(event.title), toLowerCase(term))
    \/ includes(toLowerCase(event.location), toLowerCase(term))
    \/ \E k \in 1..Len(event.tags) :
           includes(toLowerCase(event.tags[k]), toLowerCase(term))

\* the callback of events.filter: `return matchesFilter && matchesSearch`
keep_or(event, f, term) == matchesFilter(event, f) \/ matchesSearch(event, term)

keep(event, f, term) == matchesFilter(event, f) /\ matchesSearch(event, term)

\* Array.prototype.filter with that callback
RECURSIVE filterEvents_reversed(_, _, _)
filterEvents_reversed(es, f, term) ==
    IF es = <<>> THEN <<>>
    ELSE filterEvents_reversed(Tail(es), f, term)
         \o (IF keep(Head(es), f, term) THEN <<Head(es)>> ELSE <<>>)

filterEvents_skipFirst(es, f, term) ==
    IF es = <<>> THEN <<>>
    ELSE SelectSeq(Tail(es), LAMBDA e : keep(e, f, term))

RECURSIVE filterEvents(_, _, _)
filterEvents(es, f, term) ==
    IF es = <<>> THEN <<>>
    ELSE (IF keep(Head(es), f, term) THEN <<Head(es)>> ELSE <<>>)
         \o filterEvents(Tail(es), f, term)

\* `const filteredEvents = events.filter(...)`, computed at each render
filteredEvents == filterEvents(events, filter, searchTerm)

\* the ids of the cards rendered: filteredEvents.map(... key={event.id})
ListedIds == { filteredEvents[j].id : j \in 1..Len(filteredEvents) }

----------------------------------------------------------------------------
(* app/page.tsx (Home) and the reset effect of ImageView *)

\* selectedEvent = null
NoEvent == [null |-> TRUE]

\* the value `undefined`
Undefined == -1

\* selectedEvent?.id
Id(event) == IF event = NoEvent THEN Undefined ELSE event.id

\* the reset effect of ImageView has yet to run for the focused event: its
\* dependency selectedEvent?.id differs from the one it last ran with.  React
\* runs pending effects before it handles the next event.
Pending == resetDep # Id(selectedEvent)

\* the value `null`
Null == -2

\* Home: selectedEventId={selectedEvent?.id || null}
selectedEventId ==
    IF selectedEvent = NoEvent THEN Null
    ELSE IF Truthy(selectedEvent.id) THEN selectedEvent.id
    ELSE Null

\* EventsList: isSelected={selectedEventId === event.id}
isSelected(event) == selectedEventId = event.id

----------------------------------------------------------------------------
(* components/Gallery.tsx: ImageView *)

ViewModes == { "satellite", "gallery", "graph" }

\* selectedEvent?.images?.length and the like: 0 stands for undefined too
ImagesLength == IF selectedEvent = NoEvent THEN 0 ELSE Len(selectedEvent.images)

SatelliteLength ==
    IF selectedEvent = NoEvent THEN 0 ELSE Len(selectedEvent.satelliteImages)

GraphLength ==
    IF selectedEvent = NoEvent THEN 0 ELSE Len(selectedEvent.graphImages)

\* currentData.length
CurrentLength ==
    IF viewMode = "gallery" THEN ImagesLength
    ELSE IF viewMode = "satellite" THEN SatelliteLength
    ELSE GraphLength

\* currentIndex
CurrentIndex ==
    IF viewMode = "gallery" THEN currentImageIndex
    ELSE IF viewMode = "satellite" THEN currentSatelliteIndex
    ELSE currentGraphIndex

\* array[index] of JavaScript is undefined outside the array
Defined(array, index) == index \in 0..(Len(array) - 1)

\* the value of currentImage when it is falsy: undefined, or the empty string
NoImage == <<>>

\* currentImage: the reference of the image shown, or undefined
CurrentImage ==
    IF selectedEvent = NoEvent THEN NoImage
    ELSE IF viewMode = "gallery"
    THEN IF Defined(selectedEvent.images, currentImageIndex)
         THEN selectedEvent.images[currentImageIndex + 1]
         ELSE NoImage
    ELSE IF viewMode = "satellite"
    THEN IF Defined(selectedEvent.satelliteImages, currentSatelliteIndex)
         THEN selectedEvent.satelliteImages[currentSatelliteIndex + 1].image
         ELSE NoImage
    ELSE IF Defined(selectedEvent.graphImages, currentGraphIndex)
         THEN selectedEvent.graphImages[currentGraphIndex + 1].image
         ELSE NoImage

\* `currentData.length > 0 && currentImage`: the image container is rendered
ImageRendered ==
    /\ selectedEvent # NoEvent
    /\ CurrentLength > 0
    /\ CurrentImage # NoImage

\* `currentData.length > 1`, inside the image area: the two arrows
ArrowsRendered == ImageRendered /\ CurrentLength > 1

\* `currentData.length > 1`: the navigation bar
NavigationBarRendered == selectedEvent # NoEvent /\ CurrentLength > 1

\* what handleKeyDown, goToPrevious and goToNext of one render read
Closure ==
    [ viewMode |-> viewMode,
      currentImageIndex |-> currentImageIndex,
      currentSatelliteIndex |-> currentSatelliteIndex,
      currentGraphIndex |-> currentGraphIndex,
      selectedEvent |-> selectedEvent ]

\* the dependencies of the keydown effect
KeyDownDeps ==
    <<currentImageIndex, currentSatelliteIndex, currentGraphIndex,
      selectedEvent, viewMode>>

keydownEffect_noViewMode ==
    listener' =
        IF <<currentImageIndex, currentSatelliteIndex, currentGraphIndex,
             selectedEvent>>'
           # <<currentImageIndex, currentSatelliteIndex, currentGraphIndex,
               selectedEvent>>
        THEN Closure' ELSE listener

\* the keydown effect, after the render a step causes: when a dependency has
\* changed, the listener is replaced by the handleKeyDown of that render
keydownEffect ==
    listener' = IF KeyDownDeps' # KeyDownDeps THEN Closure' ELSE listener

\* the reset effect: useEffect(..., [selectedEvent?.id])
resetEffect_keepsGraphIndex ==
    /\ Pending
    /\ currentImageIndex' = 0
    /\ currentSatelliteIndex' = 0
    /\ viewMode' = "satellite"
    /\ isZoomed' = FALSE
    /\ imageLoaded' = FALSE
    /\ resetDep' = Id(selectedEvent)
    /\ UNCHANGED <<listVars, isExpanded, selectedEvent, zoomPosition,
                   currentGraphIndex>>
    /\ keydownEffect

resetEffect ==
    /\ Pending
    /\ currentImageIndex' = 0
    /\ currentSatelliteIndex' = 0
    /\ currentGraphIndex' = 0
    /\ viewMode' = "satellite"
    /\ isZoomed' = FALSE
    /\ imageLoaded' = FALSE
    /\ resetDep' = Id(selectedEvent)
    /\ UNCHANGED <<listVars, isExpanded, selectedEvent, zoomPosition>>
    /\ keydownEffect

handleImageClick_noGuard(x, y) ==
    IF ~isZoomed
    THEN /\ zoomPosition' = [x |-> x, y |-> y]
         /\ isZoomed' = TRUE
         /\ UNCHANGED <<listVars, isExpanded, selectedEvent, resetDep, listener,
                        viewMode,
                        currentImageIndex, currentSatelliteIndex,
                        currentGraphIndex, imageLoaded>>
    ELSE /\ isZoomed' = FALSE
         /\ UNCHANGED <<listVars, isExpanded, selectedEvent, resetDep, listener,
                        viewMode,
                        currentImageIndex, currentSatelliteIndex,
                        currentGraphIndex, zoomPosition, imageLoaded>>

\* handleImageClick, with the click at x%, y% of the container
handleImageClick(x, y) ==
    IF CurrentLength = 0
    THEN UNCHANGED vars
    ELSE IF ~isZoomed
    THEN /\ zoomPosition' = [x |-> x, y |-> y]
         /\ isZoomed' = TRUE
         /\ UNCHANGED <<listVars, isExpanded, selectedEvent, resetDep, listener,
                        viewMode,
                        currentImageIndex, currentSatelliteIndex,
                        currentGraphIndex, imageLoaded>>
    ELSE /\ isZoomed' = FALSE
         /\ UNCHANGED <<listVars, isExpanded, selectedEvent, resetDep, listener,
                        viewMode,
                        currentImageIndex, currentSatelliteIndex,
                        currentGraphIndex, zoomPosition, imageLoaded>>

Max(a, b) == IF a >= b THEN a ELSE b

Min(a, b) == IF a <= b THEN a ELSE b

handleMouseMove_unclamped(x, y) ==
    IF ~isZoomed
    THEN UNCHANGED vars
    ELSE /\ zoomPosition' = [x |-> x, y |-> y]
         /\ UNCHANGED <<listVars, isExpanded, selectedEvent, resetDep, listener,
                        viewMode,
                        currentImageIndex, currentSatelliteIndex,
                        currentGraphIndex, isZoomed, imageLoaded>>

\* handleMouseMove, with the pointer at x%, y% of the container
handleMouseMove(x, y) ==
    IF ~isZoomed
    THEN UNCHANGED vars
    ELSE /\ zoomPosition' = [x |-> Max(0, Min(100, x)), y |-> Max(0, Min(100, y))]
         /\ UNCHANGED <<listVars, isExpanded, selectedEvent, resetDep, listener,
                        viewMode,
                        currentImageIndex, currentSatelliteIndex,
                        currentGraphIndex, isZoomed, imageLoaded>>

goToImage_allModes(index) ==
    /\ currentImageIndex' = index
    /\ currentSatelliteIndex' = index
    /\ currentGraphIndex' = index
    /\ isZoomed' = FALSE
    /\ imageLoaded' = FALSE
    /\ UNCHANGED <<listVars, isExpanded, selectedEvent, resetDep, viewMode,
                   zoomPosition>>
    /\ keydownEffect

goToImage_keepsZoom(index) ==
    /\ IF viewMode = "gallery"
       THEN /\ currentImageIndex' = index
            /\ UNCHANGED <<currentSatelliteIndex, currentGraphIndex>>
       ELSE IF viewMode = "satellite"
       THEN /\ currentSatelliteIndex' = index
            /\ UNCHANGED <<currentImageIndex, currentGraphIndex>>
       ELSE /\ currentGraphIndex' = index
            /\ UNCHANGED <<currentImageIndex, currentSatelliteIndex>>
    /\ imageLoaded' = FALSE
    /\ UNCHANGED <<listVars, isExpanded, selectedEvent, resetDep, viewMode,
                   zoomPosition, isZoomed>>
    /\ keydownEffect

goToImage(index) ==
    /\ IF viewMode = "gallery"
       THEN /\ currentImageIndex' = index
            /\ UNCHANGED <<currentSatelliteIndex, currentGraphIndex>>
       ELSE IF viewMode = "satellite"
       THEN /\ currentSatelliteIndex' = index
            /\ UNCHANGED <<currentImageIndex, currentGraphIndex>>
       ELSE /\ currentGraphIndex' = index
            /\ UNCHANGED <<currentImageIndex, currentSatelliteIndex>>
    /\ isZoomed' = FALSE
    /\ imageLoaded' = FALSE
    /\ UNCHANGED <<listVars, isExpanded, selectedEvent, resetDep, viewMode,
                   zoomPosition>>
    /\ keydownEffect

\* `current === 0 ? length - 1 : current - 1`
newIndexPrevious(current, length) ==
    IF current = 0 THEN length - 1 ELSE current - 1

newIndexNext_wrapsLate(current, length) ==
    IF current = length THEN 0 ELSE current + 1

\* `current === length - 1 ? 0 : current + 1`
newIndexNext(current, length) ==
    IF current = length - 1 THEN 0 ELSE current + 1

\* the length of the collection goToPrevious and goToNext look at
LengthIn(c) ==
    IF c.selectedEvent = NoEvent THEN 0
    ELSE IF c.viewMode = "gallery" THEN Len(c.selectedEvent.images)
    ELSE IF c.viewMode = "satellite" THEN Len(c.selectedEvent.satelliteImages)
    ELSE Len(c.selectedEvent.graphImages)

\* goToPrevious of the render whose values are c
goToPreviousIn(c) ==
    IF LengthIn(c) = 0
    THEN UNCHANGED vars
    ELSE /\ IF c.viewMode = "gallery"
            THEN /\ currentImageIndex' =
                       newIndexPrevious(c.currentImageIndex, LengthIn(c))
                 /\ UNCHANGED <<currentSatelliteIndex, currentGraphIndex>>
            ELSE IF c.viewMode = "satellite"
            THEN /\ currentSatelliteIndex' =
                       newIndexPrevious(c.currentSatelliteIndex, LengthIn(c))
                 /\ UNCHANGED <<currentImageIndex, currentGraphIndex>>
            ELSE /\ currentGraphIndex' =
                       newIndexPrevious(c.currentGraphIndex, LengthIn(c))
                 /\ UNCHANGED <<currentImageIndex, currentSatelliteIndex>>
         /\ isZoomed' = FALSE
         /\ imageLoaded' = FALSE
         /\ UNCHANGED <<listVars, isExpanded, selectedEvent, resetDep,
                        viewMode, zoomPosition>>
         /\ keydownEffect

\* goToNext of the render whose values are c
goToNextIn(c) ==
    IF LengthIn(c) = 0
    THEN UNCHANGED vars
    ELSE /\ IF c.viewMode = "gallery"
            THEN /\ currentImageIndex' =
                       newIndexNext(c.currentImageIndex, LengthIn(c))
                 /\ UNCHANGED <<currentSatelliteIndex, currentGraphIndex>>
            ELSE IF c.viewMode = "satellite"
            THEN /\ currentSatelliteIndex' =
                       newIndexNext(c.currentSatelliteIndex, LengthIn(c))
                 /\ UNCHANGED <<currentImageIndex, currentGraphIndex>>
            ELSE /\ currentGraphIndex' =
                       newIndexNext(c.currentGraphIndex, LengthIn(c))
                 /\ UNCHANGED <<currentImageIndex, currentSatelliteIndex>>
         /\ isZoomed' = FALSE
         /\ imageLoaded' = FALSE
         /\ UNCHANGED <<listVars, isExpanded, selectedEvent, resetDep,
                        viewMode, zoomPosition>>
         /\ keydownEffect

\* goToPrevious and goToNext of the current render, as the arrows call them
goToPrevious == goToPreviousIn(Closure)

goToNext == goToNextIn(Closure)

Keys == { "ArrowLeft", "ArrowRight", "Escape" }

\* handleKeyDown as registered on window: the one of the render the keydown
\* effect last ran for
handleKeyDown(key) ==
    /\ ~Pending
    /\ IF key = "ArrowLeft" THEN goToPreviousIn(listener)
       ELSE IF key = "ArrowRight" THEN goToNextIn(listener)
       ELSE /\ isZoomed' = FALSE
            /\ UNCHANGED <<listVars, isExpanded, selectedEvent, resetDep, listener,
                           viewMode, currentImageIndex, currentSatelliteIndex,
                           currentGraphIndex, zoomPosition, imageLoaded>>

setViewMode_resetsIndex(mode) ==
    /\ viewMode' = mode
    /\ currentImageIndex' = IF mode = "gallery" THEN 0 ELSE currentImageIndex
    /\ currentSatelliteIndex' =
          IF mode = "satellite" THEN 0 ELSE currentSatelliteIndex
    /\ currentGraphIndex' = IF mode = "graph" THEN 0 ELSE currentGraphIndex
    /\ UNCHANGED <<listVars, isExpanded, selectedEvent, resetDep,
                   isZoomed, zoomPosition, imageLoaded>>
    /\ keydownEffect

\* setViewMode, as the tabs call it
setViewMode(mode) ==
    /\ viewMode' = mode
    /\ UNCHANGED <<listVars, isExpanded, selectedEvent, resetDep,
                   currentImageIndex, currentSatelliteIndex, currentGraphIndex,
                   isZoomed, zoomPosition, imageLoaded>>
    /\ keydownEffect

\* a tab: onClick={() => setViewMode(mode)}; the graph tab is rendered only
\* when `graphImages.length > 0`
clickTab(mode) ==
    /\ ~Pending
    /\ selectedEvent # NoEvent
    /\ mode = "graph" => GraphLength > 0
    /\ setViewMode(mode)

\* the image container: onClick={handleImageClick}
clickImage(x, y) ==
    /\ ~Pending
    /\ ImageRendered
    /\ handleImageClick(x, y)

\* the image container: onMouseMove={handleMouseMove}
moveMouse(x, y) ==
    /\ ~Pending
    /\ ImageRendered
    /\ handleMouseMove(x, y)

\* the arrow buttons: onClick={goToPrevious}, onClick={goToNext}
clickPrevious == ~Pending /\ ArrowsRendered /\ goToPrevious

clickNext == ~Pending /\ ArrowsRendered /\ goToNext

NavigationItems_years == 0..(SatelliteLength - 1)

\* the indices the navigation bar renders a button for: those of
\* satelliteImages.map, images.map or graphImages.map, by viewMode
NavigationItems ==
    IF viewMode = "satellite" THEN 0..(SatelliteLength - 1)
    ELSE IF viewMode = "gallery" THEN 0..(ImagesLength - 1)
    ELSE 0..(GraphLength - 1)

\* a year button or a thumbnail of the navigation bar:
\* onClick={() => goToImage(index)}
clickNavigation(index) ==
    /\ ~Pending
    /\ NavigationBarRendered
    /\ index \in NavigationItems
    /\ goToImage(index)

\* <Image onLoad={() => setImageLoaded(true)} />
onLoad ==
    /\ ~Pending
    /\ ImageRendered
    /\ imageLoaded' = TRUE
    /\ UNCHANGED <<listVars, isExpanded, selectedEvent, resetDep, listener,
                        viewMode,
                   currentImageIndex, currentSatelliteIndex, currentGraphIndex,
                   isZoomed, zoomPosition>>

onError_keepsSpinner ==
    /\ ~Pending
    /\ ImageRendered
    /\ imageLoaded' = FALSE
    /\ UNCHANGED <<listVars, isExpanded, selectedEvent, resetDep, listener,
                   viewMode,
                   currentImageIndex, currentSatelliteIndex, currentGraphIndex,
                   isZoomed, zoomPosition>>

\* <Image onError={...} />: logs, then setImageLoaded(true)
onError ==
    /\ ~Pending
    /\ ImageRendered
    /\ imageLoaded' = TRUE
    /\ UNCHANGED <<listVars, isExpanded, selectedEvent, resetDep, listener,
                        viewMode,
                   currentImageIndex, currentSatelliteIndex, currentGraphIndex,
                   isZoomed, zoomPosition>>

\* what the handlers compute from e.clientX, e.clientY and the rectangle of
\* the container, <<x, y>> in percent: positions inside it, and positions the
\* arithmetic puts beyond its edges (those handleMouseMove clamps)
PointerPositions == { <<-1, 40>>, <<40, 101>>, <<101, -1>> }

----------------------------------------------------------------------------
(* components/SuperbloomEvent.tsx *)

\* the status indicator of the card: {event.isActive ? 'Active' : 'Inactive'}
Badge(event) == IF event.isActive THEN "Active" ELSE "Inactive"

handleClick_collapseKeepsFocus(event) ==
    /\ mounted
    /\ ~Pending
    /\ event \in Range(filteredEvents)
    /\ isExpanded' = IF event.id \in isExpanded
                     THEN isExpanded \ { event.id }
                     ELSE isExpanded \cup { event.id }
    /\ selectedEvent' = IF event.id \in isExpanded THEN selectedEvent ELSE event
    /\ UNCHANGED <<listVars, resetDep, viewerVars>>
    /\ keydownEffect

\* handleClick of the card of `event`: setIsExpanded(!isExpanded), then
\* onFocus(event), which is Home's setSelectedEvent(event)
handleClick(event) ==
    /\ mounted
    /\ ~Pending
    /\ event \in Range(filteredEvents)
    /\ isExpanded' = IF event.id \in isExpanded
                     THEN isExpanded \ { event.id }
                     ELSE isExpanded \cup { event.id }
    /\ selectedEvent' = event
    /\ UNCHANGED <<listVars, resetDep, viewerVars>>
    /\ keydownEffect

----------------------------------------------------------------------------
(* Initial state and operations *)

Init ==
    /\ clock \in Instants
    /\ superbloomData \in Catalogs
    /\ mounted = FALSE
    /\ events = <<>>
    /\ filter = "all"
    /\ searchTerm = <<>>
    /\ isExpanded = {}
    /\ selectedEvent = NoEvent
    /\ resetDep = Id(NoEvent)
    /\ viewMode = "satellite"
    /\ currentImageIndex = 0
    /\ currentSatelliteIndex = 0
    /\ currentGraphIndex = 0
    /\ isZoomed = FALSE
    /\ zoomPosition = [x |-> 50, y |-> 50]
    /\ imageLoaded = FALSE
    /\ listener = Closure
    /\ loading = {}

\* time passes: the clock reaches the next observed instant
Tick ==
    /\ \E t \in Instants :
         /\ t > clock
         /\ \A u \in Instants : u > clock => t <= u
         /\ clock' = t
    /\ UNCHANGED <<superbloomData, mounted, events, filter, searchTerm>>
    /\ UNCHANGED pageVars

\* useEffect(() => setEvents(superbloomData), []): once, after the first render
LoadEvents ==
    /\ ~mounted
    /\ mounted' = TRUE
    /\ events' = superbloomData
    /\ UNCHANGED <<clock, superbloomData, filter, searchTerm>>
    /\ UNCHANGED pageVars

setFilter_clearsFocus(key) ==
    /\ mounted
    /\ ~Pending
    /\ filter' = key
    /\ UNCHANGED <<clock, superbloomData, mounted, events, searchTerm>>
    /\ isExpanded' = IF isExpanded = {} THEN {} ELSE isExpanded \cap ListedIds'
    /\ selectedEvent' = IF Id(selectedEvent) \in ListedIds'
                        THEN selectedEvent ELSE NoEvent
    /\ UNCHANGED <<resetDep, viewerVars, loading>>
    /\ keydownEffect

\* a filter button: onClick={() => setFilter(key)}; the cards that leave
\* the list are unmounted and lose their isExpanded
setFilter(key) ==
    /\ mounted
    /\ ~Pending
    /\ filter' = key
    /\ UNCHANGED <<clock, superbloomData, mounted, events, searchTerm>>
    /\ isExpanded' = IF isExpanded = {} THEN {} ELSE isExpanded \cap ListedIds'
    /\ UNCHANGED <<selectedEvent, resetDep, viewerVars, listener, loading>>

\* the search box: onChange={(e) => setSearchTerm(e.target.value)}
setSearchTerm(value) ==
    /\ mounted
    /\ ~Pending
    /\ searchTerm' = value
    /\ UNCHANGED <<clock, superbloomData, mounted, events, filter>>
    /\ isExpanded' = IF isExpanded = {} THEN {} ELSE isExpanded \cap ListedIds'
    /\ UNCHANGED <<selectedEvent, resetDep, viewerVars, listener, loading>>

Next ==
    \/ Tick
    \/ LoadEvents
    \/ \E key \in Filters : setFilter(key)
    \/ \E value \in Edits(searchTerm) : setSearchTerm(value)

Spec == Init /\ [][Next]_vars

\* The classifier alone: the list is mounted and left untouched while time
\* passes, so that getBloomStatus is applied at every instant.
NextClassifier ==
    \/ Tick
    \/ LoadEvents

SpecClassifier == Init /\ [][NextClassifier]_vars

\* The page with the list left on its defaults: cards are clicked and the
\* viewer is driven through the controls it renders and through the keyboard.
\* The order of the catalog and the clock play no part in it: the catalogs
\* are taken in the order of their ids, at one instant, with two records at
\* most (the event focused and the one focused before it).
InitViewer ==
    /\ Init
    /\ clock = At(Date(2024, 3, 10), 0)
    /\ Len(superbloomData) <= 2
    /\ \A i, j \in 1..Len(superbloomData) :
          i < j => superbloomData[i].id < superbloomData[j].id

NextViewer ==
    \/ LoadEvents
    \/ \E event \in EventPool : handleClick(event) /\ UNCHANGED loading
    \/ resetEffect /\ UNCHANGED loading
    \/ \E mode \in ViewModes : clickTab(mode) /\ UNCHANGED loading
    \/ \E p \in PointerPositions : clickImage(p[1], p[2]) /\ UNCHANGED loading
    \/ \E p \in PointerPositions : moveMouse(p[1], p[2]) /\ UNCHANGED loading
    \/ clickPrevious /\ UNCHANGED loading
    \/ clickNext /\ UNCHANGED loading
    \/ \E index \in NavigationItems :
          clickNavigation(index) /\ UNCHANGED loading
    \/ \E key \in Keys : handleKeyDown(key) /\ UNCHANGED loading
    \/ onLoad /\ UNCHANGED loading
    \/ onError /\ UNCHANGED loading

SpecViewer == InitViewer /\ [][NextViewer]_vars

\* The page with the list and the viewer side by side: cards are focused,
\* the viewer is moved off its defaults, and the filter buttons and the
\* search box change what the list shows, at one instant.
NextPage ==
    \/ LoadEvents
    \/ \E key \in Filters : setFilter(key)
    \/ \E value \in Edits(searchTerm) : setSearchTerm(value)
    \/ \E event \in EventPool : handleClick(event) /\ UNCHANGED loading
    \/ resetEffect /\ UNCHANGED loading
    \/ \E mode \in ViewModes : clickTab(mode) /\ UNCHANGED loading
    \/ clickNext /\ UNCHANGED loading

SpecPage == InitViewer /\ [][NextPage]_vars

\* The functions of the viewer called with arguments of any kind: goToImage
\* with every index of IndexArgs, whatever the controls rendered.  One event
\* at most is in the catalog; indices are kept within IndexArgs.
IndexArgs == (-1)..MaxIndex

callGoToImage(index) ==
    /\ ~Pending
    /\ selectedEvent # NoEvent
    /\ goToImage(index)

InitViewerApi == InitViewer /\ Len(superbloomData) <= 1

NextViewerApi ==
    \/ LoadEvents
    \/ \E event \in EventPool : handleClick(event) /\ UNCHANGED loading
    \/ resetEffect /\ UNCHANGED loading
    \/ \E mode \in ViewModes : clickTab(mode) /\ UNCHANGED loading
    \/ \E index \in IndexArgs : callGoToImage(index) /\ UNCHANGED loading
    \/ \E key \in Keys :
          handleKeyDown(key) /\ CurrentIndex' \in IndexArgs /\ UNCHANGED loading
    \/ onLoad /\ UNCHANGED loading

SpecViewerApi == InitViewerApi /\ [][NextViewerApi]_vars

\* The viewer with the load attempts of <Image src={currentImage} /> told
\* apart: the one of the image displayed ("current") and one of an image
\* displayed before it ("previous"), whose notification may still arrive.
LoadAttempts == { "current", "previous" }

\* the browser, after the render a step causes: a new <Image>, or a new src
\* on the one rendered, starts a load attempt; an <Image> no longer rendered
\* notifies nothing
startLoads ==
    loading' =
        IF ~ImageRendered' THEN {}
        ELSE IF ~ImageRendered THEN { "current" }
        ELSE IF CurrentImage' # CurrentImage
        THEN { "current" } \cup (IF loading # {} THEN { "previous" } ELSE {})
        ELSE loading

\* the notification of a load attempt reaches onLoad
notifyLoad(attempt) ==
    /\ attempt \in loading
    /\ onLoad
    /\ loading' = loading \ { attempt }

\* the notification of a failed load attempt reaches onError
notifyError(attempt) ==
    /\ attempt \in loading
    /\ onError
    /\ loading' = loading \ { attempt }

InitViewerLoads == InitViewer /\ Len(superbloomData) <= 1

NextViewerLoads ==
    \/ LoadEvents
    \/ \E event \in EventPool : handleClick(event) /\ startLoads
    \/ resetEffect /\ startLoads
    \/ \E mode \in ViewModes : clickTab(mode) /\ startLoads
    \/ clickPrevious /\ startLoads
    \/ clickNext /\ startLoads
    \/ \E index \in NavigationItems :
          clickNavigation(index) /\ startLoads
    \/ \E key \in Keys : handleKeyDown(key) /\ startLoads
    \/ \E attempt \in LoadAttempts : notifyLoad(attempt)
    \/ \E attempt \in LoadAttempts : notifyError(attempt)

SpecViewerLoads == InitViewerLoads /\ [][NextViewerLoads]_vars

\* The same, scheduled: React runs the reset effect that is due, and every
\* load attempt that stays outstanding is notified, as a load or as an error.
SpecViewerLoadsFair ==
    /\ SpecViewerLoads
    /\ WF_vars(resetEffect /\ startLoads)
    /\ \A attempt \in LoadAttempts :
          SF_vars(notifyLoad(attempt) \/ notifyError(attempt))

----------------------------------------------------------------------------
(* Properties of the bloom-status classifier *)

\* calendar order of two date strings, without parsing them
DateLE(a, b) ==
    \/ a.y < b.y
    \/ (a.y = b.y /\ a.m < b.m)
    \/ (a.y = b.y /\ a.m = b.m /\ a.d <= b.d)

Intervals == DateStrings \X DateStrings

ValidIntervals == { iv \in Intervals : DateLE(iv[1], iv[2]) }

InvalidIntervals == Intervals \ ValidIntervals

Statuses == { "active", "upcoming", "past" }

\* 2024-03-10T00:00:00Z, 19792 days after the epoch
Midnight20240310 == 19792 * MsPerDay

\* C1: for every interval with start <= end and every instant now the
\* classifier returns exactly one of active, upcoming, past: active iff
\* start <= now <= end, upcoming iff now < start, past iff now > end; the
\* interval 2024-03-01..2024-03-20 is active on 2024-03-10.
C1_StatusPartition ==
    /\ \A iv \in ValidIntervals :
         \A r \in { getBloomStatus(iv) }, s \in { DateParse(iv[1]) },
            e \in { DateParse(iv[2]) } :
             /\ r.status \in Statuses
             /\ (r.status = "active") <=> (s <= clock /\ clock <= e)
             /\ (r.status = "upcoming") <=> (clock < s)
             /\ (r.status = "past") <=> (clock > e)
             /\ r.isActive <=> (r.status = "active")
    /\ (Midnight20240310 <= clock /\ clock < Midnight20240310 + MsPerDay) =>
         getBloomStatus(<<Date(2024, 3, 1), Date(2024, 3, 20)>>).status = "active"

\* now is exactly the start, or exactly the end, of an interval of the
\* loaded catalog, and the classifier has answered active
C1_Witness ==
    /\ mounted
    /\ \E i \in 1..Len(events) :
         LET iv == events[i].peakTimeInterval
         IN  /\ iv \in ValidIntervals
             /\ iv[1] # iv[2]
             /\ clock \in { DateParse(iv[1]), DateParse(iv[2]) }
             /\ getBloomStatus(iv).status = "active"

\* C2: an upcoming result carries an integer daysUntil >= 1, a past result
\* an integer daysSince >= 1, and an active result carries neither field.
C2_PositiveDays ==
    \A iv \in Intervals :
        \A r \in { getBloomStatus(iv) } :
            /\ r.status = "upcoming" =>
                /\ DOMAIN r = { "isActive", "status", "daysUntil" }
                /\ r.daysUntil \in Int
                /\ r.daysUntil >= 1
            /\ r.status = "past" =>
                /\ DOMAIN r = { "isActive", "status", "daysSince" }
                /\ r.daysSince \in Int
                /\ r.daysSince >= 1
            /\ r.status = "active" =>
                DOMAIN r = { "isActive", "status" }

\* one second before an interval of the loaded catalog starts, while
\* another interval of the catalog has ended
C2_Witness ==
    /\ mounted
    /\ \E i, j \in 1..Len(events) :
         /\ clock = DateParse(events[i].peakTimeInterval[1]) - 1
         /\ getBloomStatus(events[i].peakTimeInterval).status = "upcoming"
         /\ getBloomStatus(events[i].peakTimeInterval).daysUntil = 1
         /\ getBloomStatus(events[j].peakTimeInterval).status = "past"

Scenario == <<Date(2024, 3, 1), Date(2024, 3, 20)>>

OnDay(day) == DateParse(day) <= clock /\ clock < DateParse(day) + MsPerDay

\* C3 as stated: for 2024-03-01..2024-03-20 and now = 2024-02-20 the
\* classifier returns upcoming with daysUntil = 9.
C3_Original ==
    clock = DateParse(Date(2024, 2, 20)) =>
        /\ getBloomStatus(Scenario).status = "upcoming"
        /\ getBloomStatus(Scenario).daysUntil = 9

\* C3 amended: for 2024-03-01..2024-03-20 and now on 2024-02-20 the
\* classifier returns upcoming with daysUntil = 10 (2024 is a leap year),
\* which is ceil((start - now) / 1 day).
C3_DaysUntilTen ==
    OnDay(Date(2024, 2, 20)) =>
        /\ getBloomStatus(Scenario).status = "upcoming"
        /\ getBloomStatus(Scenario).daysUntil = 10
        /\ (getBloomStatus(Scenario).daysUntil - 1) * MsPerDay
              < DateParse(Scenario[1]) - clock
        /\ DateParse(Scenario[1]) - clock
              <= getBloomStatus(Scenario).daysUntil * MsPerDay

\* the scenario's event is in the loaded catalog on 2024-02-20, after midnight
C3_Witness ==
    /\ mounted
    /\ \E i \in 1..Len(events) : events[i].peakTimeInterval = Scenario
    /\ OnDay(Date(2024, 2, 20))
    /\ clock > DateParse(Date(2024, 2, 20))

\* C4 as stated: for an interval with start > end the classifier signals
\* InvalidInterval, so it returns none of active, upcoming, past.
C4_InvalidIntervalSignalled ==
    \A i \in 1..Len(events) :
        events[i].peakTimeInterval \in InvalidIntervals =>
            getBloomStatus(events[i].peakTimeInterval).status \notin Statuses

\* C5 as stated: two calls with the same interval return the same result,
\* whenever they are made.
C5_SameResultForSameInterval ==
    [][\A iv \in Intervals : getBloomStatus(iv)' = getBloomStatus(iv)]_vars

----------------------------------------------------------------------------
(* Properties of the event list *)

Loaded(event) == \E i \in 1..Len(events) : events[i] = event

Listed(event) == \E j \in 1..Len(filteredEvents) : filteredEvents[j] = event

\* C6: with the filter soon an event passes the status predicate iff its
\* status is upcoming and its daysUntil is <= 50 (50 included); with an
\* empty search term these are the events listed.
C6_SoonFilter ==
    filter = "soon" =>
        \A i \in 1..Len(events) :
            LET r == getBloomStatus(events[i].peakTimeInterval)
                soon == r.status = "upcoming" /\ r.daysUntil <= 50
            IN  /\ matchesFilter(events[i], filter) <=> soon
                /\ searchTerm = <<>> => (Listed(events[i]) <=> soon)

\* the filter is soon and an event that starts in exactly 50 days is listed
C6_Witness ==
    /\ filter = "soon"
    /\ \E i \in 1..Len(events) :
         /\ getBloomStatus(events[i].peakTimeInterval).status = "upcoming"
         /\ getBloomStatus(events[i].peakTimeInterval).daysUntil = 50
         /\ Listed(events[i])

\* C7: with the filter inactive an event passes the status predicate iff
\* its status is past, or upcoming with daysUntil > 50.
C7_InactiveFilter ==
    filter = "inactive" =>
        \A i \in 1..Len(events) :
            LET r == getBloomStatus(events[i].peakTimeInterval)
                inactive == \/ r.status = "past"
                            \/ (r.status = "upcoming" /\ r.daysUntil > 50)
            IN  /\ matchesFilter(events[i], filter) <=> inactive
                /\ searchTerm = <<>> => (Listed(events[i]) <=> inactive)

\* the filter is inactive; a past event and an event 51 days ahead are
\* both listed
C7_Witness ==
    /\ filter = "inactive"
    /\ \E i, j \in 1..Len(events) :
         /\ getBloomStatus(events[i].peakTimeInterval).status = "upcoming"
         /\ getBloomStatus(events[i].peakTimeInterval).daysUntil = 51
         /\ Listed(events[i])
         /\ getBloomStatus(events[j].peakTimeInterval).status = "past"
         /\ Listed(events[j])

\* two characters that are the same letter
SameLetter(c, d) ==
    \/ c = d
    \/ { c, d } = { "a", "A" }
    \/ { c, d } = { "n", "N" }

\* two strings that differ at most in letter case
DifferOnlyInCase(s, t) ==
    /\ Len(s) = Len(t)
    /\ \A i \in 1..Len(s) : SameLetter(s[i], t[i])

\* s occurs in t, letter case ignored
OccursIgnoringCase(s, t) ==
    \E i \in 0..(Len(t) - Len(s)) :
        \A k \in 1..Len(s) : SameLetter(s[k], t[i + k])

\* C8: an event passes the search predicate iff the term is empty or occurs,
\* letter case ignored, in the title, the location or one of the tags; two
\* terms that differ only in letter case give the same filtered list.
C8_SearchIgnoresCase ==
    /\ \A i \in 1..Len(events) :
         matchesSearch(events[i], searchTerm) <=>
            \/ searchTerm = <<>>
            \/ OccursIgnoringCase(searchTerm, events[i].title)
            \/ OccursIgnoringCase(searchTerm, events[i].location)
            \/ \E k \in 1..Len(events[i].tags) :
                  OccursIgnoringCase(searchTerm, events[i].tags[k])
    /\ \A shown \in { filteredEvents } :
         \A other \in Terms :
            DifferOnlyInCase(other, searchTerm) =>
               filterEvents(events, filter, other) = shown

\* an upper-case term finds an event through a tag only, and another event
\* of the catalog is not found
C8_Witness ==
    /\ searchTerm = <<"N", "A">>
    /\ \E i, j \in 1..Len(events) :
         /\ Listed(events[i])
         /\ ~includes(toLowerCase(events[i].title), toLowerCase(searchTerm))
         /\ ~includes(toLowerCase(events[i].location), toLowerCase(searchTerm))
         /\ ~Listed(events[j])

\* C9: the filtered list holds exactly the loaded events that pass both the
\* status predicate and the search predicate; filter and search term start
\* as all and empty, and with these the filtered list is the whole catalog.
C9_BothPredicates ==
    /\ \A listed \in { Range(filteredEvents) } :
         \A event \in EventPool :
            event \in listed <=>
               /\ Loaded(event)
               /\ matchesFilter(event, filter)
               /\ matchesSearch(event, searchTerm)
    /\ ~mounted => (filter = "all" /\ searchTerm = <<>>)
    /\ (filter = "all" /\ searchTerm = <<>>) => filteredEvents = events
    /\ (mounted /\ filter = "all" /\ searchTerm = <<>>) =>
          filteredEvents = superbloomData

\* an event passes the status filter but not the search, another the search
\* but not the status filter, and neither is listed
C9_Witness ==
    /\ filter # "all"
    /\ searchTerm # <<>>
    /\ \E i, j \in 1..Len(events) :
         /\ matchesFilter(events[i], filter)
         /\ ~matchesSearch(events[i], searchTerm)
         /\ ~matchesFilter(events[j], filter)
         /\ matchesSearch(events[j], searchTerm)
         /\ ~Listed(events[i])
         /\ ~Listed(events[j])

\* the position of a loaded event in the catalog
IndexOf(event) == CHOOSE i \in 1..Len(events) : events[i] = event

\* the filtered list is a subsequence of the loaded list, in its order
OrderedSubsequence ==
    /\ \A j \in 1..Len(filteredEvents) : Loaded(filteredEvents[j])
    /\ \A j, k \in 1..Len(filteredEvents) :
         j < k => IndexOf(filteredEvents[j]) < IndexOf(filteredEvents[k])

\* C10: for every filter and search term the filtered list is a subsequence
\* of the loaded list in the same order, with each event at most once, and
\* changing the filter or the search term leaves the loaded list as it was.
C10_FilterPreservesCatalog ==
    /\ []OrderedSubsequence
    /\ [][(filter' # filter \/ searchTerm' # searchTerm) => events' = events]_vars
    /\ [][mounted => events' = events]_vars

\* a filter and a search term are set, and two events are listed
C10_Witness ==
    /\ Len(filteredEvents) = 2
    /\ filter # "all"
    /\ searchTerm # <<>>

\* C11: filtering is idempotent: the same filter and search term applied, at
\* the same instant, to the filtered list return that list.
C11_FilterIdempotent ==
    \A shown \in { filteredEvents } :
        filterEvents(shown, filter, searchTerm) = shown

\* a filter and a search term are set that keep one event and drop another
C11_Witness ==
    /\ filter # "all"
    /\ searchTerm # <<>>
    /\ Len(filteredEvents) >= 1
    /\ Len(filteredEvents) < Len(events)

\* C12 as stated: a record whose interval has start > end is listed under
\* none of the filters active, soon, inactive.
C12_InvalidIntervalExcluded ==
    filter \in { "active", "soon", "inactive" } =>
        \A i \in 1..Len(events) :
            events[i].peakTimeInterval \in InvalidIntervals =>
                ~Listed(events[i])

----------------------------------------------------------------------------
(* Properties of the image viewer *)

\* the state of the viewer after a reset
ViewerReset ==
    /\ viewMode = "satellite"
    /\ currentSatelliteIndex = 0
    /\ currentImageIndex = 0
    /\ currentGraphIndex = 0
    /\ isZoomed = FALSE
    /\ imageLoaded = FALSE

\* C13: whenever the focused event changes to an event with another id, the
\* viewer is reset whatever its state was: the change makes the reset effect
\* due, and the effect is the next step and leaves mode = satellite, the three
\* indices 0, zoomed = false and imageLoaded = false.
C13_FocusResetsViewer ==
    [][ /\ Id(selectedEvent)' # Id(selectedEvent) => Pending'
        /\ Pending => (~Pending' /\ ViewerReset') ]_vars

\* the focus has moved from one event to another while the viewer showed a
\* zoomed, loaded graph other than the first
C13_Witness ==
    /\ Pending
    /\ resetDep # Undefined
    /\ selectedEvent # NoEvent
    /\ viewMode = "graph"
    /\ currentGraphIndex > 0
    /\ isZoomed
    /\ imageLoaded

\* C14 as stated: with a non-empty active collection, after any calls of
\* goToNext, goToPrevious and goToImage(i), i any integer, the active index
\* is within [0, length).
C14_IndexInRange ==
    (~Pending /\ CurrentLength > 0) => CurrentIndex \in 0..(CurrentLength - 1)

\* C15 as stated: goToImage(i) with i outside [0, length) leaves the active
\* index as it was; with i in range it sets the active index to i.
C15_OutOfRangeIsNoOp ==
    [][ \A i \in IndexArgs :
          callGoToImage(i) =>
             CurrentIndex' = IF i \in 0..(CurrentLength - 1)
                             THEN i ELSE CurrentIndex ]_vars

RECURSIVE NextTimes(_, _, _)
NextTimes(times, current, length) ==
    IF times = 0 THEN current
    ELSE NextTimes(times - 1, newIndexNext(current, length), length)

\* C16: with n >= 2 images in the active collection, goToPrevious takes the
\* index k to n-1 if k = 0 and to k-1 otherwise, goToNext takes it to 0 if
\* k = n-1 and to k+1 otherwise; goToNext then goToPrevious, and n times
\* goToNext, lead back to k.
C16_WrapAround ==
    /\ [](\A n \in { CurrentLength }, k \in { CurrentIndex } :
            (~Pending /\ n >= 2) =>
               /\ newIndexPrevious(newIndexNext(k, n), n) = k
               /\ NextTimes(n, k, n) = k)
    /\ [][ \A n \in { CurrentLength }, k \in { CurrentIndex } :
             n >= 2 =>
                /\ goToPrevious => CurrentIndex' = IF k = 0 THEN n - 1 ELSE k - 1
                /\ goToNext => CurrentIndex' = IF k = n - 1 THEN 0 ELSE k + 1
         ]_vars

\* the gallery of three photos shows its last photo, not yet loaded
C16_Witness ==
    /\ ~Pending
    /\ viewMode = "gallery"
    /\ ImagesLength = 3
    /\ currentImageIndex = 2
    /\ ~imageLoaded

\* C17 as stated: with 0 or 1 images in the active collection goToPrevious
\* and goToNext leave the whole state of the viewer as it was.
C17_NoOpOnShortCollection ==
    [][ ((goToPrevious \/ goToNext) /\ CurrentLength <= 1) =>
            UNCHANGED viewerVars ]_vars

\* C18 as stated: choosing another mode with a tab makes it the active mode
\* and leaves zoomed = false and imageLoaded = false.
C18_TabResetsFlags ==
    [][ \A mode \in ViewModes :
          (clickTab(mode) /\ viewMode # mode) =>
             (viewMode' = mode /\ ~isZoomed' /\ ~imageLoaded') ]_vars

\* C19: a change of mode that is not a reset leaves the three indices as
\* they were, so that a mode shows the same index when it is chosen again.
C19_TabKeepsIndices ==
    [][ (viewMode' # viewMode /\ resetDep' = resetDep) =>
           UNCHANGED <<currentImageIndex, currentSatelliteIndex,
                       currentGraphIndex>> ]_vars

\* the gallery is shown while the satellite index is not the first
C19_Witness ==
    /\ ~Pending
    /\ viewMode = "gallery"
    /\ currentSatelliteIndex > 0

\* C20: a step of goToImage, goToPrevious or goToNext (the mode stays and no
\* reset runs) that changes the active index leaves zoomed = false and
\* imageLoaded = false.
C20_NavigationResetsFlags ==
    [][ (viewMode' = viewMode /\ resetDep' = resetDep
            /\ CurrentIndex' # CurrentIndex) =>
           (~isZoomed' /\ ~imageLoaded') ]_vars

\* after a zoom, a navigation has moved the index and left the flags false
C20_Witness ==
    /\ ~Pending
    /\ CurrentIndex > 0
    /\ zoomPosition # [x |-> 50, y |-> 50]
    /\ ~isZoomed
    /\ ~imageLoaded

\* C21 as stated: in every reachable state the zoom origin's x and y are
\* within [0, 100], a click that enters the zoomed state storing the click
\* position with each coordinate clamped to [0, 100].
C21_ZoomOriginClamped ==
    /\ zoomPosition.x \in 0..100
    /\ zoomPosition.y \in 0..100

\* C22: a click handled while the active collection is empty, or while no
\* event is focused, is a no-op: from no such state can handleImageClick
\* change zoomed or the zoom origin, wherever the click is.
C22_NoZoomOnEmptyCollection ==
    CurrentLength = 0 =>
        \A p \in PointerPositions :
            ~ ENABLED (/\ handleImageClick(p[1], p[2])
                       /\ <<isZoomed, zoomPosition>>' # <<isZoomed, zoomPosition>>)

\* an event is focused in a mode whose collection is empty, zoomed or not
C22_Witness ==
    /\ ~Pending
    /\ selectedEvent # NoEvent
    /\ CurrentLength = 0
    /\ isZoomed

\* a pointer coordinate clamped to [0, 100]
Clamped(percent) ==
    IF percent < 0 THEN 0 ELSE IF percent > 100 THEN 100 ELSE percent

\* C23: a pointer move changes the zoom origin only while zoomed, to the
\* position of the pointer with each coordinate clamped to [0, 100], and
\* changes neither zoomed, mode, indices nor imageLoaded; while not zoomed it
\* changes nothing at all.
C23_MoveOnlyWhileZoomed ==
    /\ [](\A p \in PointerPositions :
            /\ ~isZoomed =>
                  ~ ENABLED (handleMouseMove(p[1], p[2]) /\ vars' # vars)
            /\ isZoomed =>
                  ~ ENABLED (/\ handleMouseMove(p[1], p[2])
                             /\ \/ zoomPosition' # [x |-> Clamped(p[1]),
                                                    y |-> Clamped(p[2])]
                                \/ <<isZoomed, viewMode, currentImageIndex,
                                     currentSatelliteIndex, currentGraphIndex,
                                     imageLoaded>>'
                                   # <<isZoomed, viewMode, currentImageIndex,
                                       currentSatelliteIndex, currentGraphIndex,
                                       imageLoaded>>))
    /\ [][ (isZoomed /\ zoomPosition' # zoomPosition) =>
              /\ \E p \in PointerPositions :
                    zoomPosition' = [x |-> Clamped(p[1]), y |-> Clamped(p[2])]
              /\ UNCHANGED <<isZoomed, viewMode, currentImageIndex,
                             currentSatelliteIndex, currentGraphIndex,
                             imageLoaded>> ]_vars

\* the pointer has moved beyond two edges of the zoomed image
C23_Witness ==
    /\ ~Pending
    /\ isZoomed
    /\ zoomPosition = [x |-> 100, y |-> 0]

\* everything the page holds but imageLoaded
AllButImageLoaded ==
    <<listVars, isExpanded, selectedEvent, resetDep, listener, viewMode,
      currentImageIndex, currentSatelliteIndex, currentGraphIndex, isZoomed,
      zoomPosition>>

\* C24: wherever the image is rendered, the notification of a load and the
\* notification of a load error both leave imageLoaded = true and change
\* nothing else; the two lead to the same state, so that an error is no state
\* of its own and starts nothing.
C24_LoadAndErrorAlike ==
    (~Pending /\ ImageRendered) =>
        /\ ~ ENABLED (onLoad /\ ~imageLoaded')
        /\ ~ ENABLED (onError /\ ~imageLoaded')
        /\ ~ ENABLED (onLoad /\ AllButImageLoaded' # AllButImageLoaded)
        /\ ~ ENABLED (onError /\ AllButImageLoaded' # AllButImageLoaded)
        /\ ~ ENABLED (onError /\ ~onLoad)
        /\ ~ ENABLED (onLoad /\ ~onError)

\* a notification has arrived for a zoomed image other than the first
C24_Witness ==
    /\ ~Pending
    /\ ImageRendered
    /\ imageLoaded
    /\ isZoomed
    /\ CurrentIndex > 0

\* C25: the keyboard does what the controls do.  From every state ArrowLeft
\* leads where goToPrevious of the current render leads and ArrowRight where
\* goToNext leads, Escape leaves zoomed = false and mode, indices and
\* imageLoaded as they were; the listener registered closes over the current
\* mode, indices and focused event.
C25_KeysActAsControls ==
    /\ listener = Closure
    /\ ~Pending =>
          /\ ~ ENABLED (handleKeyDown("ArrowLeft") /\ ~goToPrevious)
          /\ ~ ENABLED (goToPrevious /\ ~handleKeyDown("ArrowLeft"))
          /\ ~ ENABLED (handleKeyDown("ArrowRight") /\ ~goToNext)
          /\ ~ ENABLED (goToNext /\ ~handleKeyDown("ArrowRight"))
          /\ ~ ENABLED (/\ handleKeyDown("Escape")
                        /\ \/ isZoomed'
                           \/ <<viewMode, currentImageIndex,
                                currentSatelliteIndex, currentGraphIndex,
                                imageLoaded>>'
                              # <<viewMode, currentImageIndex,
                                  currentSatelliteIndex, currentGraphIndex,
                                  imageLoaded>>)

\* after a change of mode, the second graph is shown where the arrows are
\* rendered, zoomed
C25_Witness ==
    /\ ~Pending
    /\ viewMode = "graph"
    /\ GraphLength = 2
    /\ currentGraphIndex = 1
    /\ isZoomed

\* C26 as stated: a notification of the image displayed before a navigation
\* that arrives after it is harmless: imageLoaded is true only when the load
\* attempt of the image displayed has finished.
C26_LoadedMeansCurrentLoaded ==
    (~Pending /\ ImageRendered /\ imageLoaded) => "current" \notin loading

\* C27 as stated: in every reachable state, the render that follows a change
\* of focus included, the index of each mode is within [0, length) of the
\* focused event's collection of that mode when that collection is not empty.
C27_IndicesValid ==
    selectedEvent # NoEvent =>
        /\ ImagesLength > 0 => currentImageIndex \in 0..(ImagesLength - 1)
        /\ SatelliteLength > 0 =>
              currentSatelliteIndex \in 0..(SatelliteLength - 1)
        /\ GraphLength > 0 => currentGraphIndex \in 0..(GraphLength - 1)

\* C28: every goToImage the rendered navigation bar can issue (year buttons,
\* photo thumbnails, graph thumbnails) carries an index within [0, length) of
\* the collection of the active mode and sets the index of that mode.
C28_NavigationBarInRange ==
    /\ [](NavigationBarRendered =>
             NavigationItems = 0..(CurrentLength - 1))
    /\ [][ \A index \in IndexArgs :
             clickNavigation(index) =>
                /\ index \in 0..(CurrentLength - 1)
                /\ viewMode' = viewMode
                /\ CurrentIndex' = index ]_vars

\* a thumbnail has been clicked in a gallery shorter than the list of years
C28_Witness ==
    /\ ~Pending
    /\ viewMode = "gallery"
    /\ ImagesLength < SatelliteLength
    /\ currentImageIndex = ImagesLength - 1
    /\ currentImageIndex > 0

\* C29 as stated: with an event focused, when the active collection is empty
\* or the reference of the current image is missing, the empty state is
\* rendered with no zoom, no arrows and no navigation bar; arrows and
\* navigation bar are offered exactly when the active collection has more
\* than one element.
C29_ControlsOffered ==
    (~Pending /\ selectedEvent # NoEvent) =>
        /\ (CurrentLength = 0 \/ CurrentImage = NoImage) =>
              (~ImageRendered /\ ~ArrowsRendered /\ ~NavigationBarRendered)
        /\ ArrowsRendered <=> CurrentLength > 1
        /\ NavigationBarRendered <=> CurrentLength > 1

\* C30: a click on a card of the list always makes its event the focused
\* event of Home, whether the card is expanded or not and whatever was
\* focused before; nothing but such a click changes the focused event.
C30_ClickFocuses ==
    /\ [](\A event \in Range(filteredEvents) :
            (mounted /\ ~Pending) =>
               /\ ENABLED handleClick(event)
               /\ ~ ENABLED (handleClick(event) /\ selectedEvent' # event))
    /\ [][ selectedEvent' # selectedEvent =>
              \E event \in Range(filteredEvents) :
                 handleClick(event) /\ selectedEvent' = event ]_vars

\* the focused card has been clicked again and is collapsed, while the card
\* focused before it is still expanded
C30_Witness ==
    /\ ~Pending
    /\ selectedEvent # NoEvent
    /\ selectedEvent.id \notin isExpanded
    /\ isExpanded # {}

----------------------------------------------------------------------------
(* Properties of the page as a whole *)

StatusFilters == { "active", "soon", "inactive" }

\* the events a filter shows when the search term is empty
Shown(f) == Range(filterEvents(events, f, <<>>))

\* C31: at every instant each loaded event (the one with an invalid interval
\* too) passes exactly one of the filters active, soon and inactive; with an
\* empty search term the three lists are pairwise disjoint and together they
\* are the list of the filter all.
C31_StatusFiltersPartition ==
    /\ \A i \in 1..Len(events) :
          Cardinality({ f \in StatusFilters : matchesFilter(events[i], f) }) = 1
    /\ \A f, g \in StatusFilters : f # g => Shown(f) \cap Shown(g) = {}
    /\ UNION { Shown(f) : f \in StatusFilters } = Shown("all")

\* two events are loaded, one exactly 50 days ahead (soon) and one 51 days
\* ahead (inactive)
C31_Witness ==
    /\ Len(events) = 2
    /\ \E i, j \in 1..Len(events) :
         /\ getBloomStatus(events[i].peakTimeInterval).status = "upcoming"
         /\ getBloomStatus(events[i].peakTimeInterval).daysUntil = SoonDays
         /\ getBloomStatus(events[j].peakTimeInterval).status = "upcoming"
         /\ getBloomStatus(events[j].peakTimeInterval).daysUntil = SoonDays + 1

\* C32 as stated: the loading indicator always clears.  Whenever an image is
\* displayed with imageLoaded = false, imageLoaded eventually becomes true
\* (or the image is no longer displayed), every load attempt being notified
\* in the end and an attempt starting only when the reference displayed
\* changes.
C32_IndicatorClears ==
    (~Pending /\ ImageRendered /\ ~imageLoaded) ~> (imageLoaded \/ ~ImageRendered)

\* C33 as stated: in every state a card of the list has isSelected = true
\* iff an event is focused and its id is the id of the card, the id 0
\* included.
C33_SelectedCardIsFocused ==
    \A j \in 1..Len(filteredEvents) :
        isSelected(filteredEvents[j]) <=>
            (selectedEvent # NoEvent /\ selectedEvent.id = filteredEvents[j].id)

\* C34 as stated: in every rendered state of the viewer, the render that
\* follows a change of focus included, the mode graph is active only if the
\* focused event has at least one graph image.
C34_GraphModeHasGraphs ==
    (selectedEvent # NoEvent /\ viewMode = "graph") => GraphLength > 0

\* C35 as stated: the badge of a card agrees with the status the filter
\* uses: every card listed under the filter active shows Active, every card
\* listed under the filter soon or inactive shows Inactive.
C35_BadgeAgreesWithFilter ==
    \A j \in 1..Len(filteredEvents) :
        /\ filter = "active" => Badge(filteredEvents[j]) = "Active"
        /\ filter \in { "soon", "inactive" } =>
              Badge(filteredEvents[j]) = "Inactive"

\* C36: once an event is focused the focused event never returns to none,
\* and a step that changes the status filter or the search term leaves the
\* focused event and the state of the viewer as they are, also when the
\* focused event is no longer in the filtered list.
C36_FocusOutlivesFilter ==
    [][ /\ selectedEvent # NoEvent => selectedEvent' # NoEvent
        /\ (filter' # filter \/ searchTerm' # searchTerm) =>
              UNCHANGED <<selectedEvent, viewerVars>> ]_vars

\* an event is focused, the viewer has left the mode it opens in, and the
\* filter or the search term has put the focused event out of the list
C36_Witness ==
    /\ selectedEvent # NoEvent
    /\ ~Pending
    /\ selectedEvent.id \notin ListedIds
    /\ viewMode # "satellite"

\* the active mode and the indices of the two modes that are not active
ModeAndOtherIndices ==
    IF viewMode = "gallery"
    THEN <<viewMode, currentSatelliteIndex, currentGraphIndex>>
    ELSE IF viewMode = "satellite"
    THEN <<viewMode, currentImageIndex, currentGraphIndex>>
    ELSE <<viewMode, currentImageIndex, currentSatelliteIndex>>

\* C37: no call of goToImage, goToPrevious or goToNext, from a control or
\* from the keyboard, changes the active mode or the index of a mode that is
\* not the active one: in no state is such a call able to end in a state
\* where one of them differs.
C37_NavigationKeepsOtherIndices ==
    /\ \A index \in IndexArgs :
          ~ ENABLED (goToImage(index)
                        /\ ModeAndOtherIndices' # ModeAndOtherIndices)
    /\ ~ ENABLED (goToPrevious /\ ModeAndOtherIndices' # ModeAndOtherIndices)
    /\ ~ ENABLED (goToNext /\ ModeAndOtherIndices' # ModeAndOtherIndices)
    /\ \A key \in { "ArrowLeft", "ArrowRight" } :
          ~ ENABLED (handleKeyDown(key)
                        /\ ModeAndOtherIndices' # ModeAndOtherIndices)

\* the photos are shown past the first one while the satellite index, moved
\* earlier, is still past the first satellite image
C37_Witness ==
    /\ ~Pending
    /\ selectedEvent # NoEvent
    /\ viewMode = "gallery"
    /\ currentImageIndex > 0
    /\ currentSatelliteIndex > 0
    /\ currentImageIndex # currentSatelliteIndex

====
